---- MODULE Spec2Model ----
(***************************************************************************)
(* The record store of archiiv (package fs): the in-memory index of        *)
(* records, the files of the storage root, the index RWMutex and the       *)
(* per-record mutexes, driven by the HTTP handlers of endpoints.go.        *)
(*                                                                         *)
(* Every function of fs.go is an operator over a "machine" m               *)
(*   m.rec  the index fs.records          (key -> record struct)           *)
(*   m.fil  the files of fs.basePath      (file name -> content)           *)
(*   m.lk   fs.lock, a sync.RWMutex       ([readers, writer])              *)
(*   m.hd   the record mutexes now locked (set of index keys)              *)
(* and returns the machine it leaves together with how control left it:    *)
(*   "ok"      returned with a nil error                                   *)
(*   "err"     returned a non-nil error                                    *)
(*   "panic"   a nil-pointer dereference (net/http recovers the request)   *)
(*   "fatal"   a runtime fatal error: the whole process is gone            *)
(*   "blocked" the goroutine waits for ever on a lock                      *)
(* A pointer to a record is the index key the record is stored under.      *)
(***************************************************************************)
EXTENDS Integers, Sequences, FiniteSets, TLC

VARIABLES
    records,    \* fs.records: the index, identifier -> record
    files,      \* the entries of the directory fs.basePath
    idxLock,    \* fs.lock
    held,       \* the records whose mutex is locked
    status,     \* "running", "fatal" once the runtime has ended the process,
                \* "failed" when NewFs returned an error and nothing is served
    last,       \* the request served last and its outcome
    codec,      \* package id on its own: the value and the text in hand
    removal,    \* removeID on its own: the slice, the element, what it returned
    users,      \* the users directory: user name -> password hash
    clock,      \* time.Now(), in days
    issued,     \* the session tokens login has handed out
    web         \* the login, whoami or delete request served last, and its response

vars == <<records, files, idxLock, held, status, last, codec, removal, users, clock,
          issued, web>>

\* ---------------------------------------------------------------- bounds
MaxID == 3          \* a storage root holds records among 1..MaxID
MaxLen == 3         \* removeID on its own is given slices of up to MaxLen elements

\* ------------------------------------------------------------- constants
ZeroID == 0         \* id.ID{}: the zero value of the identifier type
Nil == -1           \* the nil *record (no index key)
UintMax == 65535    \* the largest uint, width scaled down to 16 bits

DiskIDs == 1 .. MaxID
IDs == 1 .. (MaxID + 1)         \* the values id.New() may draw
SectionIDs == {1, 2}            \* the identifiers sections are asked for
Names == {"a.txt"}
Payloads == {<<1, 2, 3>>, <<7>>}
\* section names as character sequences: two that match onlySectionPattern,
\* the empty one and one with a character outside the class
SectionNames == {<<"d">>, <<"m", "-">>, <<>>, <<"a", ".", "b">>}
SaneChars == {"d", "m", "a", "b", "-", "_", "0"}

\* --------------------------------------------------------------- helpers
Range(s) == {s[i] : i \in 1 .. Len(s)}

RECURSIVE SetToSeq(_)
SetToSeq(S) ==
    IF S = {} THEN <<>>
    ELSE LET x == CHOOSE y \in S : \A z \in S : y <= z
         IN <<x>> \o SetToSeq(S \ {x})

\* ------------------------------------------------------------ file names
\* fs.path(r.id.String()): the record document of an identifier
recordFile(i) == [id |-> i, dot |-> FALSE, sec |-> <<>>]

\* fs.path(file.String() + "." + section)
getSectionFileName(file, section) == [id |-> file, dot |-> TRUE, sec |-> section]

\* what a directory entry holds: a JSON document (doc, at most one) or raw
\* bytes; dir marks a subdirectory
docFile(d) == [dir |-> FALSE, doc |-> <<d>>, bytes |-> <<>>]
rawFile(b) == [dir |-> FALSE, doc |-> <<>>, bytes |-> b]

\* ------------------------------------------------------------ the record
\* type record: Children, IsDir and Name are encoded; id, refs and mutex
\* carry `json:"-"` and are not
newStruct(children, isDir, name, ident, refs) ==
    [Children |-> children, IsDir |-> isDir, Name |-> name, id |-> ident, refs |-> refs]

\* json.NewEncoder(f).Encode(r): the persisted document of a record
Encode(r) == [children |-> r.Children, is_dir |-> r.IsDir, name |-> r.Name]

\* rec := new(record); dec.Decode(rec): the unexported fields keep their zero
\* values, so the identifier is id.ID{} and the reference count is 0
Decode(doc) == newStruct(doc.children, doc.is_dir, doc.name, ZeroID, 0)

\* ------------------------------------------------------------- the index lock
\* sync.RWMutex.RLock: waits while a writer holds the lock
RLock(m) ==
    IF m.lk.writer THEN [m |-> m, st |-> "blocked"]
    ELSE [m |-> [m EXCEPT !.lk.readers = @ + 1], st |-> "ok"]

\* sync.RWMutex.Lock: waits for the writer and for every reader to leave
Lock(m) ==
    IF m.lk.writer \/ m.lk.readers > 0 THEN [m |-> m, st |-> "blocked"]
    ELSE [m |-> [m EXCEPT !.lk.writer = TRUE], st |-> "ok"]

\* sync.RWMutex.Unlock: "sync: Unlock of unlocked RWMutex" is a fatal error of
\* the runtime when the lock is not held for writing
Unlock(m) ==
    IF ~m.lk.writer THEN [m |-> m, st |-> "fatal"]
    ELSE [m |-> [m EXCEPT !.lk.writer = FALSE], st |-> "ok"]

\* ------------------------------------------------------------- fs.record
\* RLock; defer Unlock; r, e := fs.records[u]; if e { return nil, error };
\* return r, nil.  The deferred Unlock runs on either return.
record(m, u) ==
    LET a == RLock(m)
    IN  IF a.st # "ok" THEN [m |-> a.m, st |-> a.st, r |-> Nil]
        ELSE LET e == u \in DOMAIN a.m.rec
                 r == IF e THEN u ELSE Nil
                 b == Unlock(a.m)
             IN  IF b.st # "ok" THEN [m |-> b.m, st |-> b.st, r |-> Nil]
                 ELSE IF e THEN [m |-> b.m, st |-> "err", r |-> Nil]
                 ELSE [m |-> b.m, st |-> "ok", r |-> r]

\* ------------------------------------------------------ the record mutex
\* r.mutex.Lock() through a nil *record faults; on a mutex that is already
\* locked it waits (sync.Mutex is not reentrant)
lock(m, r) ==
    IF r = Nil THEN [m |-> m, st |-> "panic"]
    ELSE IF r \in m.hd THEN [m |-> m, st |-> "blocked"]
    ELSE [m |-> [m EXCEPT !.hd = @ \cup {r}], st |-> "ok"]

\* r.mutex.Unlock()
unlock(m, r) == [m EXCEPT !.hd = @ \ {r}]

\* ---------------------------------------------------------- fs.setRecord
\* Lock; defer Unlock; fs.records[r.id] = r
setRecord(m, r) ==
    LET a == Lock(m)
    IN  IF a.st # "ok" THEN a
        ELSE Unlock([a.m EXCEPT !.rec = (r.id :> r) @@ @])

\* -------------------------------------------------------- fs.writeRecord
\* os.Create(fs.path(r.id.String())) and Encode(r): the document is written
\* to the file named by the record's own id field
writeRecord(m, r) ==
    LET s == m.rec[r]
    IN  [m |-> [m EXCEPT !.fil = (recordFile(s.id) :> docFile(Encode(s))) @@ @], st |-> "ok"]

\* ---------------------------------------------------------- fs.newRecord
\* nid is the value id.New() draws
newRecord(m, parent, name, dir, nid) ==
    LET child == newStruct(<<>>, dir, name, nid, 1)
        a == setRecord(m, child)
    IN  IF a.st # "ok" THEN [m |-> a.m, st |-> a.st, r |-> Nil]
        ELSE IF parent = Nil THEN [m |-> a.m, st |-> "panic", r |-> Nil]
        ELSE IF \E i \in 1 .. Len(a.m.rec[parent].Children) :
                    a.m.rec[parent].Children[i] = nid
             THEN [m |-> a.m, st |-> "err", r |-> Nil]
        ELSE LET m2 == [a.m EXCEPT !.rec[parent].Children = Append(@, nid)]
                 w == writeRecord(m2, nid)
             IN  [m |-> w.m, st |-> w.st, r |-> nid]

\* -------------------------------------------------------------- removeID
\* the first loop stops at the first occurrence of v and leaves i on it; the
\* second loop goes on from that same i
removeID(s, v) ==
    LET found == {i \in 1 .. Len(s) : s[i] = v}
        pos == IF found = {} THEN 0 ELSE CHOOSE i \in found : \A j \in found : i <= j
        i2 == IF pos = 0 THEN Len(s) + 1 ELSE pos
    IN  IF \E i \in i2 .. Len(s) : s[i] = v THEN [s |-> s, st |-> "err"]
        ELSE IF pos = 0 THEN [s |-> s, st |-> "err"]
        ELSE [s |-> SubSeq([s EXCEPT ![pos] = s[Len(s)]], 1, Len(s) - 1), st |-> "ok"]

\* ------------------------------------------------ checkSectionNameSanity
\* the pattern without its anchors: one character of the class is enough
checkSectionNameSanity_Unanchored(section) ==
    \E i \in 1 .. Len(section) : section[i] \in SaneChars

\* onlySectionPattern  ^[a-zA-Z0-9_-]+$
checkSectionNameSanity(section) ==
    Len(section) >= 1 /\ \A i \in 1 .. Len(section) : section[i] \in SaneChars

\* child.refs-- on a uint
Decrement(n) == IF n = 0 THEN UintMax ELSE n - 1

\* ------------------------------------------- fs.Unmount, fs.deleteRecord
RECURSIVE Unmount(_, _, _)
RECURSIVE deleteRecord(_, _)
RECURSIVE unmountEach(_, _, _, _)

\* the loop of deleteRecord over r.Children from position i on; us is the
\* slice the range statement evaluated once
unmountEach(m, r, us, i) ==
    IF i > Len(us) THEN [m |-> m, st |-> "ok"]
    ELSE LET a == Unmount(m, m.rec[r].id, us[i])
         IN  IF a.st # "ok" THEN a ELSE unmountEach(a.m, r, us, i + 1)

\* os.ReadDir(fs.basePath), then os.Remove(e.Name()) for every entry whose
\* name starts with the text of r.id.  e.Name() is the bare file name, which
\* os.Remove resolves against the working directory of the process and not
\* against fs.basePath (createServer makes it <data_dir>/files), so the
\* first removal returns an error and the storage root keeps the files
deleteRecord(m, r) ==
    LET a == unmountEach(m, r, m.rec[r].Children, 1)
    IN  IF a.st # "ok" THEN a
        ELSE IF \E f \in DOMAIN a.m.fil : f.id = a.m.rec[r].id
             THEN [m |-> a.m, st |-> "err"]
             ELSE [m |-> a.m, st |-> "ok"]

\* what the two deferred unlocks leave when Unmount returns or panics; a
\* goroutine that is blocked or a process that is gone unlocks nothing
unwind(x, rs) ==
    IF x.st \in {"ok", "err", "panic"} THEN [m |-> [x.m EXCEPT !.hd = @ \ rs], st |-> x.st]
    ELSE [m |-> x.m, st |-> x.st]

Unmount(m, parentID, childID) ==
    LET a == record(m, parentID)
    IN  IF a.st # "ok" THEN [m |-> a.m, st |-> a.st]
        ELSE LET b == lock(a.m, a.r)
        IN  IF b.st # "ok" THEN b
        ELSE LET parent == a.r
                 c == removeID(b.m.rec[parent].Children, childID)
                 m3 == [b.m EXCEPT !.rec[parent].Children = c.s]
        IN  IF c.st # "ok" THEN unwind([m |-> m3, st |-> "err"], {parent})
        ELSE LET w == writeRecord(m3, parent)
                 d == record(w.m, childID)
        IN  IF d.st # "ok" THEN unwind([m |-> d.m, st |-> d.st], {parent})
        ELSE LET e == lock(d.m, d.r)
        IN  IF e.st # "ok" THEN unwind(e, {parent})
        ELSE LET child == d.r
                 m5 == [e.m EXCEPT !.rec[child].refs = Decrement(@)]
        IN  IF m5.rec[child].refs = 0
            THEN unwind(deleteRecord(m5, child), {parent, child})
            ELSE unwind([m |-> m5, st |-> "ok"], {parent, child})

\* -------------------------------------------------------------- fs.Mount
Mount(m, parent, newChild) ==
    LET a == record(m, newChild)
    IN  IF a.st # "ok" THEN [m |-> a.m, st |-> a.st]
        ELSE LET b == record(a.m, parent)
        IN  IF b.st # "ok" THEN [m |-> b.m, st |-> b.st]
        ELSE LET c == lock(b.m, b.r)
        IN  IF c.st # "ok" THEN c
        ELSE LET rec == b.r
        IN  IF \E i \in 1 .. Len(c.m.rec[rec].Children) : c.m.rec[rec].Children[i] = newChild
            THEN unwind([m |-> c.m, st |-> "err"], {rec})
        ELSE LET m4 == [c.m EXCEPT !.rec[rec].Children = Append(@, newChild)]
                 d == lock(m4, a.r)
        IN  IF d.st # "ok" THEN unwind(d, {rec})
        ELSE LET m5 == unlock([d.m EXCEPT !.rec[a.r].refs = (@ + 1) % (UintMax + 1)], a.r)
        IN  unwind(writeRecord(m5, rec), {rec})

\* -------------------------------------------------- fs.Mkdir, fs.Touch
\* return r.id, err: r is nil when newRecord returned an error before the
\* append
created(b) ==
    IF b.st \in {"ok", "err"} /\ b.r = Nil THEN [m |-> b.m, st |-> "panic", ret |-> ZeroID]
    ELSE IF b.st \in {"ok", "err"} THEN [m |-> b.m, st |-> b.st, ret |-> b.m.rec[b.r].id]
    ELSE [m |-> b.m, st |-> b.st, ret |-> ZeroID]

\* if err != nil { return id.ID{}, nil }
Mkdir(m, parentID, name, nid) ==
    LET a == record(m, parentID)
    IN  IF a.st = "err" THEN [m |-> a.m, st |-> "ok", ret |-> ZeroID]
        ELSE IF a.st # "ok" THEN [m |-> a.m, st |-> a.st, ret |-> ZeroID]
        ELSE created(newRecord(a.m, a.r, name, TRUE, nid))

\* if err != nil { return id.ID{}, err }
Touch(m, parentID, name, nid) ==
    LET a == record(m, parentID)
    IN  IF a.st # "ok" THEN [m |-> a.m, st |-> a.st, ret |-> ZeroID]
        ELSE created(newRecord(a.m, a.r, name, FALSE, nid))

\* -------------------------------------------------------- fs.GetChildren
\* whether fs.lock is held, for reading or for writing
Locked(m) == m.lk.writer \/ m.lk.readers > 0

\* return fs.records[u].Children, nil: no lock is taken, and a missing key
\* gives the nil *record, whose field access faults
GetChildren(m, u) ==
    IF u \in DOMAIN m.rec
    THEN [m |-> m, st |-> "ok", ret |-> m.rec[u].Children, locked |-> Locked(m)]
    ELSE [m |-> m, st |-> "panic", ret |-> <<>>, locked |-> Locked(m)]

\* ------------------------- fs.OpenSection, CreateSection, DeleteSection
\* the errors the three return (e): the one checkSectionNameSanity makes and
\* the one of the os package for a file that is not there
NotSane == "section name is not sane"
NotExist == "no such file or directory"
NoError == ""

\* os.Open of the section file; the caller reads the bytes (handleCat)
OpenSection(m, id, section) ==
    IF ~checkSectionNameSanity(section) THEN [m |-> m, st |-> "err", e |-> NotSane, ret |-> <<>>]
    ELSE IF getSectionFileName(id, section) \notin DOMAIN m.fil
         THEN [m |-> m, st |-> "err", e |-> NotExist, ret |-> <<>>]
    ELSE [m |-> m, st |-> "ok", e |-> NoError,
          ret |-> m.fil[getSectionFileName(id, section)].bytes]

\* the file opened for appending instead of truncated
CreateSection_Append(m, id, section, b) ==
    IF ~checkSectionNameSanity(section) THEN [m |-> m, st |-> "err", e |-> NotSane, ret |-> <<>>]
    ELSE LET f == getSectionFileName(id, section)
             old == IF f \in DOMAIN m.fil THEN m.fil[f].bytes ELSE <<>>
         IN  [m |-> [m EXCEPT !.fil = (f :> rawFile(old \o b)) @@ @],
              st |-> "ok", e |-> NoError, ret |-> <<>>]

\* os.Create creates or truncates the section file; the caller copies the
\* request body b into it (handleUpload)
CreateSection(m, id, section, b) ==
    IF ~checkSectionNameSanity(section) THEN [m |-> m, st |-> "err", e |-> NotSane, ret |-> <<>>]
    ELSE [m |-> [m EXCEPT !.fil = (getSectionFileName(id, section) :> rawFile(b)) @@ @],
          st |-> "ok", e |-> NoError, ret |-> <<>>]

\* os.RemoveAll in place of os.Remove: a file that is not there is no error
DeleteSection_RemoveAll(m, id, section) ==
    IF ~checkSectionNameSanity(section) THEN [m |-> m, st |-> "err", e |-> NotSane, ret |-> <<>>]
    ELSE [m |-> [m EXCEPT !.fil = [f \in DOMAIN @ \ {getSectionFileName(id, section)} |-> @[f]]],
          st |-> "ok", e |-> NoError, ret |-> <<>>]

\* os.Remove of the section file
DeleteSection(m, id, section) ==
    IF ~checkSectionNameSanity(section) THEN [m |-> m, st |-> "err", e |-> NotSane, ret |-> <<>>]
    ELSE IF getSectionFileName(id, section) \notin DOMAIN m.fil
         THEN [m |-> m, st |-> "err", e |-> NotExist, ret |-> <<>>]
    ELSE [m |-> [m EXCEPT !.fil = [f \in DOMAIN @ \ {getSectionFileName(id, section)} |-> @[f]]],
          st |-> "ok", e |-> NoError, ret |-> <<>>]

\* -------------------------------------------------------- fs.loadRecords
\* onlyFileInFsRootPattern: the text of an identifier, alone or followed by
\* a dot and a section name
matchesFileInFsRoot(n) ==
    /\ n.id \in 0 .. MaxID + 1
    /\ IF n.dot THEN checkSectionNameSanity(n.sec) ELSE n.sec = <<>>

\* the second loop, over the record files in the order os.ReadDir lists them
\* (by name, which is the order of the identifiers); it stops at the first
\* document that does not decode and keeps what it has loaded
RECURSIVE loadEach(_, _, _)
loadEach(disk, left, rec) ==
    IF left = {} THEN [st |-> "ok", rec |-> rec]
    ELSE LET u == CHOOSE x \in left : \A y \in left : x <= y
             f == disk[recordFile(u)]
         IN  IF f.doc = <<>> THEN [st |-> "err", rec |-> rec]
             ELSE loadEach(disk, left \ {u}, (u :> Decode(f.doc[1])) @@ rec)

loadRecords(disk) ==
    IF \E n \in DOMAIN disk : disk[n].dir \/ ~matchesFileInFsRoot(n)
    THEN [st |-> "err", rec |-> <<>>]
    ELSE loadEach(disk, {n.id : n \in {x \in DOMAIN disk : ~x.dot}}, <<>>)

\* ------------------------------------------------------------------ NewFs
\* the index starts empty; an error of loadRecords or a missing root is
\* returned together with the *Fs built so far
NewFs(root, disk) ==
    LET l == loadRecords(disk)
    IN  IF l.st # "ok" THEN l
        ELSE IF root \notin DOMAIN l.rec THEN [st |-> "err", rec |-> l.rec]
        ELSE l

\* ============================================================ package id
\* type ID struct { value [16]byte }: a sequence of sixteen bytes, the most
\* significant first. A string is a sequence of one-character strings and a
\* big.Int a sequence of bytes, the most significant first.
IDLen == 16
ByteBase == 256
strlen == 22
base == 58

b58table ==
    <<"1", "2", "3", "4", "5", "6", "7", "8", "9",
      "A", "B", "C", "D", "E", "F", "G", "H", "J", "K", "L", "M", "N",
      "P", "Q", "R", "S", "T", "U", "V", "W", "X", "Y", "Z",
      "a", "b", "c", "d", "e", "f", "g", "h", "i", "j", "k", "m",
      "n", "o", "p", "q", "r", "s", "t", "u", "v", "w", "x", "y", "z">>

\* id.ID{}
ZeroValue == [i \in 1 .. IDLen |-> 0]

Reverse(e) == [i \in 1 .. Len(e) |-> e[Len(e) + 1 - i]]

\* n.Cmp(zero) == 0
IsZero(n) == \A i \in 1 .. Len(n) : n[i] = 0

\* n.DivMod(n, d, remainder) from byte i on, carry being the remainder of
\* the bytes before i: the quotient's bytes from i on and the remainder
RECURSIVE LongDiv(_, _, _, _)
LongDiv(n, d, i, carry) ==
    IF i > Len(n) THEN [q |-> <<>>, r |-> carry]
    ELSE LET cur == carry * ByteBase + n[i]
             rest == LongDiv(n, d, i + 1, cur % d)
         IN  [q |-> <<cur \div d>> \o rest.q, r |-> rest.r]

DivMod(n, d) == LongDiv(n, d, 1, 0)

\* result.Mul(result, m); result.Add(result, a) over the bytes up to i, the
\* least significant first: the bytes of the product and the carry out
RECURSIVE MulAddFrom(_, _, _, _)
MulAddFrom(n, m, i, carry) ==
    IF i = 0 THEN IF carry = 0 THEN <<>> ELSE <<carry>>
    ELSE LET cur == n[i] * m + carry
         IN  MulAddFrom(n, m, i - 1, cur \div ByteBase) \o <<cur % ByteBase>>

MulAdd(n, m, a) == MulAddFrom(n, m, Len(n), a)

\* result.Bytes(): the absolute value without leading zero bytes
RECURSIVE Bytes(_)
Bytes(n) == IF n # <<>> /\ n[1] = 0 THEN Bytes(Tail(n)) ELSE n

\* the first loop of String: the digits of n, the least significant first
RECURSIVE Digits(_)
Digits(n) ==
    IF IsZero(n) THEN <<>>
    ELSE LET dm == DivMod(n, base)
         IN  <<b58table[dm.r + 1]>> \o Digits(dm.q)

\* String without its second loop: no padding to strlen
String_NoPadding(v) == Reverse(Digits(v))

\* func (id ID) String() string
String(v) ==
    LET e == Digits(v)
        padded == IF Len(e) < strlen
                  THEN e \o [i \in 1 .. strlen - Len(e) |-> b58table[1]]
                  ELSE e
    IN  Reverse(padded)

\* strings.IndexByte(b58table, r)
IndexByte(table, r) ==
    IF \E i \in 1 .. Len(table) : table[i] = r
    THEN (CHOOSE i \in 1 .. Len(table) : table[i] = r /\ \A j \in 1 .. i - 1 : table[j] # r) - 1
    ELSE -1

\* the loop of Parse over the bytes of s from i on
RECURSIVE ParseFrom(_, _, _)
ParseFrom(s, i, result) ==
    IF i > Len(s) THEN [err |-> "", result |-> result]
    ELSE LET idx == IndexByte(b58table, s[i])
         IN  IF idx = -1 THEN [err |-> "invalid byte inside b58 string", result |-> result]
             ELSE ParseFrom(s, i + 1, MulAdd(result, base, idx))

\* copy(id.value[:], bytes): as many bytes as both hold, from the front
Copy(dst, src) ==
    [i \in 1 .. Len(dst) |-> IF i <= Len(src) THEN src[i] ELSE dst[i]]

\* the rest of Parse once the length has been looked at
ParseDigits(s) ==
    LET p == ParseFrom(s, 1, <<>>)
        bytes == Bytes(p.result)
        padding == IDLen - Len(bytes)
        padded == IF padding > 0 THEN [i \in 1 .. padding |-> 0] \o bytes ELSE bytes
    IN  IF p.err # "" THEN [err |-> p.err, id |-> ZeroValue]
        ELSE [err |-> "", id |-> Copy(ZeroValue, padded)]

\* Parse without the test of len(s)
Parse_NoLengthCheck(s) == ParseDigits(s)

\* func Parse(s string) (id ID, err error)
Parse(s) ==
    IF Len(s) # strlen THEN [err |-> "invalid b58 string length", id |-> ZeroValue]
    ELSE ParseDigits(s)

\* json.Marshal of a string of the alphabet: the string between quotes
Quote == "\""

\* func (id ID) MarshalJSON() ([]byte, error)
MarshalJSON(v) == <<Quote>> \o String(v) \o <<Quote>>

\* func (id *ID) UnmarshalJSON(data []byte) error, on the zero ID: *id is
\* only assigned when the data is a JSON string and Parse accepts it
UnmarshalJSON(data) ==
    IF \/ Len(data) < 2
       \/ data[1] # Quote
       \/ data[Len(data)] # Quote
       \/ \E i \in 2 .. Len(data) - 1 : data[i] = Quote
    THEN [err |-> "json: cannot unmarshal", id |-> ZeroValue]
    ELSE Parse(SubSeq(data, 2, Len(data) - 1))

\* what codec holds: the step taken last (op) and the one before it (from),
\* the identifier v, the text s, and the error and the identifier a Parse or
\* an UnmarshalJSON returned
Codec(op, from, v, s, err, out) ==
    [op |-> op, from |-> from, v |-> v, s |-> s, err |-> err, out |-> out]

NoCodec == Codec("none", "none", ZeroValue, <<>>, "", ZeroValue)

\* what removal holds: the arguments s and v of removeID and, once it has
\* been called (st is no longer "none"), the slice and the error it returned
Removal(s, v, out, st) == [s |-> s, v |-> v, out |-> out, st |-> st]

NoRemoval == Removal(<<>>, ZeroID, <<>>, "none")

\* ====================================================== sessions and users
\* a session token: the user name and the time of signing, signed with key
Token(name, at, key) == [name |-> name, at |-> at, key |-> key]

\* a request without an Authorization header
NoToken == Token("", 0, "")

\* ARCHIIV_SECRET, and a key that is not the server's
Secret == "secret"
OtherSecret == "other"

\* 7*24*time.Hour, in days
maxAge == 7

\* sign(name, secret): a token for name, signed now
sign(name, secret, now) == Token(name, now, secret)

\* verifySignature(token, secret, maxAge): the user name of a token that was
\* signed with secret no longer than maxAge ago, an error for any other
verifySignature(token, secret, age, now) ==
    IF token = NoToken \/ token.key # secret THEN [err |-> "bad token", username |-> ""]
    ELSE IF now - token.at > age THEN [err |-> "expired token", username |-> ""]
    ELSE [err |-> "", username |-> token.name]

\* a request: the route, the Authorization header, the {username} of the
\* path and the name and password of a login body
Request(route, token, username, name, pwd) ==
    [route |-> route, Authorization |-> token, username |-> username, name |-> name, pwd |-> pwd]

\* what a request leaves: the users directory, the status code, the error
\* or the name and the token of the body, and whether the wrapped handler ran
Response(store, code, error, name, token, invoked) ==
    [users |-> store, code |-> code, error |-> error, name |-> name, token |-> token,
     invoked |-> invoked]

sendError(store, code, msg) == Response(store, code, msg, "", NoToken, FALSE)

\* a panic inside a handler: net/http ends the request without a response
Panicked(store) == Response(store, 0, "panic", "", NoToken, FALSE)

getSessionToken(r) == r.Authorization

\* getUsername: panics on a token that does not verify
getUsername(r, secret, now) ==
    LET v == verifySignature(getSessionToken(r), secret, maxAge, now)
    IN  IF v.err # "" THEN [panic |-> TRUE, username |-> ""]
        ELSE [panic |-> FALSE, username |-> v.username]

validateToken(secret, token, now) == verifySignature(token, secret, maxAge, now).err = ""

\* adminOnly without the test of the user name
adminOnly_AnyUser(secret, r, now, store, h) ==
    IF validateToken(secret, getSessionToken(r), now) THEN h
    ELSE sendError(store, 401, "401 unauthorized")

\* adminOnly(secret, log, h): h is what the wrapped handler answers
adminOnly(secret, r, now, store, h) ==
    IF validateToken(secret, getSessionToken(r), now)
    THEN IF getUsername(r, secret, now).panic THEN Panicked(store)
         ELSE IF getUsername(r, secret, now).username = "admin" THEN h
         ELSE sendError(store, 401, "401 unauthorized")
    ELSE sendError(store, 401, "401 unauthorized")

\* requireLogin(secret, log, h)
requireLogin(secret, r, now, store, h) ==
    IF validateToken(secret, getSessionToken(r), now) THEN h
    ELSE sendError(store, 401, "401 unauthorized")

\* userStore.userPassword: an error for a user without a file
userPassword(store, username) ==
    IF username \in DOMAIN store THEN [err |-> "", pwd |-> store[username]]
    ELSE [err |-> "corrupt user data", pwd |-> ""]

\* login(name, pwd, secret, userStore)
login(name, pwd, secret, store, now) ==
    IF userPassword(store, name).err # "" THEN [ok |-> FALSE, token |-> NoToken]
    ELSE IF userPassword(store, name).pwd # pwd THEN [ok |-> FALSE, token |-> NoToken]
    ELSE [ok |-> TRUE, token |-> sign(name, secret, now)]

handleLogin(secret, r, now, store) ==
    LET l == login(r.name, r.pwd, secret, store, now)
    IN  IF ~l.ok THEN sendError(store, 403, "wrong name or password")
        ELSE Response(store, 200, "", "", l.token, TRUE)

handleWhoami(secret, r, now, store) ==
    LET u == getUsername(r, secret, now)
    IN  IF u.panic THEN Panicked(store)
        ELSE Response(store, 200, "", u.username, NoToken, TRUE)

\* userStore.deleteUser: os.Remove of the user's file
deleteUser(store, name) ==
    IF name \in DOMAIN store
    THEN [err |-> "", users |-> [u \in DOMAIN store \ {name} |-> store[u]]]
    ELSE [err |-> "no such file or directory", users |-> store]

handleDeleteUser(r, store) ==
    LET d == deleteUser(store, r.username)
    IN  IF d.err # "" THEN Response(store, 404, "username not found", "", NoToken, TRUE)
        ELSE Response(d.users, 200, "", "", NoToken, TRUE)

\* the request served last and the code, error and name of its response
Web(r, x) ==
    [route |-> r.route, Authorization |-> r.Authorization, username |-> r.username,
     code |-> x.code, error |-> x.error, name |-> x.name, invoked |-> x.invoked]

NoRequest ==
    Web(Request("none", NoToken, "", "", ""), Response(<<>>, 0, "", "", NoToken, FALSE))

\* no request for a session or a user while the store or package id is driven
NoSessions ==
    /\ users = <<>>
    /\ clock = 0
    /\ issued = {}
    /\ web = NoRequest

SessionsIdle == UNCHANGED <<users, clock, issued, web>>

\* ---------------------------------------------------------- storage roots
RootID == 1

\* the record documents a run of the store is started on: the root and any
\* of the other identifiers, every child a record of the directory, no child
\* listed twice, no cycle, every record but the root under some parent
Layouts ==
    {ch \in UNION {[S -> SUBSET S] : S \in {T \in SUBSET DiskIDs : RootID \in T}} :
        /\ \A i \in DOMAIN ch : \A j \in ch[i] : j > i
        /\ \A j \in DOMAIN ch \ {RootID} : \E i \in DOMAIN ch : j \in ch[i]}

StorageRoot(ch) ==
    [n \in {recordFile(i) : i \in DOMAIN ch} |->
        docFile([children |-> SetToSeq(ch[n.id]),
                 is_dir |-> (n.id = RootID \/ ch[n.id] # {}),
                 name |-> IF n.id = RootID THEN "" ELSE "a.txt"])]

StorageRoots == {StorageRoot(ch) : ch \in Layouts}

\* a file name that is not the text of an identifier, with or without a
\* section behind it
GarbageName == [id |-> Nil, dot |-> FALSE, sec |-> <<>>]

\* the storage roots loadRecords refuses: a sound one with a subdirectory in
\* it, with a file of a foreign name in it, or with one record document
\* replaced by bytes that are not JSON
BadStorageRoots ==
    UNION {{(GarbageName :> [dir |-> TRUE, doc |-> <<>>, bytes |-> <<>>]) @@ d,
            (GarbageName :> rawFile(<<7>>)) @@ d}
           \cup {[d EXCEPT ![n] = rawFile(<<7>>)] : n \in DOMAIN d} : d \in StorageRoots}

\* ------------------------------------------------------------------- Init
\* createServer: fs.NewFs(conf.rootID, filesDir); the server only starts
\* when NewFs returned no error (status "running"). When it returned one the
\* process ends without serving (status "failed") and records is the index
\* of the *Fs that NewFs handed back beside the error.
\* the request served last: the operation, its identifier arguments a and c,
\* its name or section argument, how the call ended, the identifier it
\* returned (rid) and the list or bytes it returned (ret); body is the
\* request body of an upload and e the error a section function returned.
Call(op, a, c, name, sec) ==
    [op |-> op, a |-> a, c |-> c, name |-> name, sec |-> sec, body |-> <<>>]

NoCall ==
    Call("none", ZeroID, ZeroID, "", <<>>)
        @@ [res |-> "ok", e |-> NoError, rid |-> ZeroID, ret |-> <<>>, locked |-> TRUE]

Init ==
    \E disk \in StorageRoots \cup BadStorageRoots :
        LET n == NewFs(RootID, disk)
        IN  /\ records = n.rec
            /\ files = disk
            /\ idxLock = [readers |-> 0, writer |-> FALSE]
            /\ held = {}
            /\ status = IF n.st = "ok" THEN "running" ELSE "failed"
            /\ last = NoCall
            /\ codec = NoCodec
            /\ removal = NoRemoval
            /\ NoSessions

\* ---------------------------------------------------------------- actions
Machine == [rec |-> records, fil |-> files, lk |-> idxLock, hd |-> held]

\* a request is served: the machine the call leaves, what it returned, and
\* whether the process survived it
Serve(call, x) ==
    /\ records' = x.m.rec
    /\ files' = x.m.fil
    /\ idxLock' = x.m.lk
    /\ held' = x.m.hd
    /\ status' = IF x.st = "fatal" THEN "fatal" ELSE "running"
    /\ last' = call @@ [res |-> x.st, e |-> x.e, rid |-> x.rid, ret |-> x.ret,
                        locked |-> x.locked]
    /\ codec' = codec
    /\ removal' = removal
    /\ SessionsIdle

\* the shapes of what the functions return, as Serve records them
\* locked tells whether fs.lock was held whenever the call touched fs.records:
\* Touch, Mkdir, Mount and Unmount touch it only inside fs.record and
\* fs.setRecord, after RLock or Lock; the section functions do not touch it;
\* GetChildren reads it in whatever state fs.lock is when it is called
NoValue(x) ==
    [m |-> x.m, st |-> x.st, e |-> NoError, rid |-> ZeroID, ret |-> <<>>, locked |-> TRUE]
IdValue(x) ==
    [m |-> x.m, st |-> x.st, e |-> NoError, rid |-> x.ret, ret |-> <<>>, locked |-> TRUE]
SeqValue(x) ==
    [m |-> x.m, st |-> x.st, e |-> NoError, rid |-> ZeroID, ret |-> x.ret,
     locked |-> x.locked]
SectionValue(x) ==
    [m |-> x.m, st |-> x.st, e |-> x.e, rid |-> ZeroID, ret |-> x.ret, locked |-> TRUE]

Ready == status = "running"

\* the identifiers a request names: each one of the index and one that is not
\* in it
ArgIDs == DOMAIN records \cup {MaxID + 1}

\* handleTouch: fs.Touch(parentID, name)
DoTouch ==
    /\ Ready
    /\ \E p \in ArgIDs, name \in Names, nid \in IDs \ DOMAIN records :
          Serve(Call("Touch", p, ZeroID, name, <<>>), IdValue(Touch(Machine, p, name, nid)))

\* handleMkdir: fs.Mkdir(id, name)
DoMkdir ==
    /\ Ready
    /\ \E p \in ArgIDs, name \in Names, nid \in IDs \ DOMAIN records :
          Serve(Call("Mkdir", p, ZeroID, name, <<>>), IdValue(Mkdir(Machine, p, name, nid)))

\* handleMount: fs.Mount(parentID, childID)
DoMount ==
    /\ Ready
    /\ \E p \in ArgIDs, c \in ArgIDs :
          Serve(Call("Mount", p, c, "", <<>>), NoValue(Mount(Machine, p, c)))

\* handleUnmount: fs.Unmount(parentID, childID)
DoUnmount ==
    /\ Ready
    /\ \E p \in ArgIDs, c \in ArgIDs :
          Serve(Call("Unmount", p, c, "", <<>>), NoValue(Unmount(Machine, p, c)))

\* handleLs: fs.GetChildren(id)
DoGetChildren ==
    /\ Ready
    /\ \E u \in ArgIDs : Serve(Call("GetChildren", u, ZeroID, "", <<>>), SeqValue(GetChildren(Machine, u)))

\* handleCat: fs.OpenSection(id, section) and io.Copy of what it reads
DoOpenSection ==
    /\ Ready
    /\ \E u \in SectionIDs, s \in SectionNames :
          Serve(Call("OpenSection", u, ZeroID, "", s), SectionValue(OpenSection(Machine, u, s)))

\* handleUpload: fs.CreateSection(id, section) and io.Copy of the body into it
DoCreateSection ==
    /\ Ready
    /\ \E u \in SectionIDs, s \in SectionNames, b \in Payloads :
          Serve([Call("CreateSection", u, ZeroID, "", s) EXCEPT !.body = b],
                SectionValue(CreateSection(Machine, u, s, b)))

\* no handler of endpoints.go calls it; it is part of the package's API
DoDeleteSection ==
    /\ Ready
    /\ \E u \in SectionIDs, s \in SectionNames :
          Serve(Call("DeleteSection", u, ZeroID, "", s), SectionValue(DeleteSection(Machine, u, s)))

Next ==
    \/ DoTouch
    \/ DoMkdir
    \/ DoMount
    \/ DoUnmount
    \/ DoGetChildren
    \/ DoOpenSection
    \/ DoCreateSection
    \/ DoDeleteSection

Spec == Init /\ [][Next]_vars

\* ====================================== package id, as id_test.go drives it
\* the bytes the identifiers are made of: both ends of a byte and the values
\* around the base
EdgeBytes == {0, 1, 57, 58, 255}

\* an identifier with first byte h, last byte l and m in between
Fill(h, m, l) == [i \in 1 .. IDLen |-> IF i = 1 THEN h ELSE IF i = IDLen THEN l ELSE m]

\* var tests: all ones, all zeros and two mixed values
tests ==
    {[i \in 1 .. IDLen |-> 255],
     [i \in 1 .. IDLen |-> 0],
     <<0, 1, 2, 3, 4, 5, 6, 7, 8, 9, 10, 11, 12, 13, 14, 15>>,
     <<239, 16, 32, 48, 64, 80, 96, 112, 128, 144, 160, 176, 192, 208, 224, 240>>}

\* the identifiers New() is taken to have drawn
IDValues == tests \cup {Fill(h, m, l) : h \in EdgeBytes, m \in EdgeBytes, l \in EdgeBytes}

\* bytes that are not in b58table
ForeignBytes == {"0", "O", "I", "l", " "}

\* the places of a text a foreign byte is put at
Places == {1, 11, strlen}

\* texts that are not the text of an identifier, made from one that is: too
\* short, too long, empty, and of the right length with a foreign byte
Malformed(s) ==
    {SubSeq(s, 1, Len(s) - 1), s \o <<b58table[1]>>, <<>>}
        \cup {[s EXCEPT ![i] = c] : i \in Places, c \in ForeignBytes}

\* letters of b58table: the first, the last, and "Z", one above the largest
\* letter the text of an identifier begins with
Letters == {"1", "Z", "z"}

\* texts of the right length over the alphabet that need not be the text of
\* an identifier, made from one that is by changing one letter: the names a
\* file in the storage root can bear, which loadRecords hands to Parse
Relettered(s) == {[s EXCEPT ![i] = c] : i \in Places, c \in Letters}

\* no store is open while the package is driven on its own
NoStore ==
    /\ records = <<>>
    /\ files = <<>>
    /\ idxLock = [readers |-> 0, writer |-> FALSE]
    /\ held = {}
    /\ status = "none"
    /\ last = NoCall

InitID ==
    /\ NoStore
    /\ NoSessions
    /\ removal = NoRemoval
    /\ \E v \in IDValues : codec = Codec("New", "none", v, <<>>, "", ZeroValue)

StoreIdle == UNCHANGED <<records, files, idxLock, held, status, last>>

IDIdle == StoreIdle /\ SessionsIdle /\ removal' = removal

\* s := tt.String()
DoString ==
    /\ codec.op = "New"
    /\ codec' = Codec("String", codec.op, codec.v, String(codec.v), "", ZeroValue)
    /\ IDIdle

\* s, err := json.Marshal(tt)
DoMarshalJSON ==
    /\ codec.op = "New"
    /\ codec' = Codec("MarshalJSON", codec.op, codec.v, MarshalJSON(codec.v), "", ZeroValue)
    /\ IDIdle

\* a text of an identifier is damaged before it is parsed
DoMalform ==
    /\ codec.op = "String"
    /\ \E t \in Malformed(codec.s) :
          codec' = Codec("Malform", codec.op, codec.v, t, "", ZeroValue)
    /\ IDIdle

\* a letter of the text of an identifier is changed before it is parsed
DoReletter ==
    /\ codec.op = "String"
    /\ \E t \in Relettered(codec.s) :
          codec' = Codec("Reletter", codec.op, codec.v, t, "", ZeroValue)
    /\ IDIdle

\* v, err := Parse(s)
DoParse ==
    /\ codec.op \in {"String", "Malform", "Reletter"}
    /\ LET p == Parse(codec.s)
       IN  codec' = Codec("Parse", codec.op, codec.v, codec.s, p.err, p.id)
    /\ IDIdle

\* var v ID; err = json.Unmarshal(s, &v)
DoUnmarshalJSON ==
    /\ codec.op = "MarshalJSON"
    /\ LET p == UnmarshalJSON(codec.s)
       IN  codec' = Codec("UnmarshalJSON", codec.op, codec.v, codec.s, p.err, p.id)
    /\ IDIdle

NextID ==
    \/ DoString
    \/ DoMarshalJSON
    \/ DoMalform
    \/ DoReletter
    \/ DoParse
    \/ DoUnmarshalJSON

SpecID == InitID /\ [][NextID]_vars

\* ================================ the session and user routes of addRoutes
MaxClock == 8       \* the days the clock runs for
MaxTokens == 1      \* the session tokens handed out in a run

UserNames == {"admin", "matuush"}
LoginNames == UserNames \cup {"marek"}
Hashes == {"kadit", "heslo123", "eek"}

\* the users a server is started with (InitFsDir): any of the two of TestDelete
UserStores ==
    {[u \in S |-> IF u = "admin" THEN "heslo123" ELSE "kadit"] : S \in SUBSET UserNames}

\* the tokens a client can send: none, one the server has handed out, or one
\* it has signed itself with a key of its own
Sendable ==
    {NoToken} \cup issued \cup {sign(u, OtherSecret, clock) : u \in UserNames}

InitWeb ==
    /\ NoStore
    /\ codec = NoCodec
    /\ removal = NoRemoval
    /\ users \in UserStores
    /\ clock = 0
    /\ issued = {}
    /\ web = NoRequest

WebIdle == StoreIdle /\ codec' = codec /\ removal' = removal

\* time passes
Tick ==
    /\ clock < MaxClock
    /\ clock' \in clock + 1 .. MaxClock
    /\ UNCHANGED <<users, issued, web>>
    /\ WebIdle

\* POST /api/v1/login
DoLogin ==
    /\ Cardinality(issued) < MaxTokens
    /\ \E name \in LoginNames, pwd \in Hashes :
          LET r == Request("login", NoToken, "", name, pwd)
              x == handleLogin(Secret, r, clock, users)
          IN  /\ web' = Web(r, x)
              /\ users' = x.users
              /\ issued' = IF x.code = 200 THEN issued \cup {x.token} ELSE issued
    /\ clock' = clock
    /\ WebIdle

\* GET /api/v1/whoami
DoWhoami ==
    /\ \E token \in Sendable :
          LET r == Request("whoami", token, "", "", "")
              x == requireLogin(Secret, r, clock, users, handleWhoami(Secret, r, clock, users))
          IN  /\ web' = Web(r, x)
              /\ users' = x.users
    /\ UNCHANGED <<clock, issued>>
    /\ WebIdle

\* POST /api/v1/delete/{username}
DoDeleteUser ==
    /\ \E token \in Sendable, target \in UserNames :
          LET r == Request("delete", token, target, "", "")
              x == adminOnly(Secret, r, clock, users, handleDeleteUser(r, users))
          IN  /\ web' = Web(r, x)
              /\ users' = x.users
    /\ UNCHANGED <<clock, issued>>
    /\ WebIdle

NextWeb ==
    \/ Tick
    \/ DoLogin
    \/ DoWhoami
    \/ DoDeleteUser

SpecWeb == InitWeb /\ [][NextWeb]_vars

\* ====================================== removeID on its own (fs.go 123-147)
\* the slices removeID is given: every sequence of identifiers of up to
\* MaxLen elements, with and without repetitions
RECURSIVE Slices(_)
Slices(n) ==
    IF n = 0 THEN {<<>>}
    ELSE LET shorter == Slices(n - 1)
         IN  shorter \cup {Append(t, u) : t \in {x \in shorter : Len(x) = n - 1}, u \in IDs}

InitRemoveID ==
    /\ NoStore
    /\ NoSessions
    /\ codec = NoCodec
    /\ \E s \in Slices(MaxLen), v \in IDs : removal = Removal(s, v, <<>>, "none")

\* s, err := removeID(s, v)
DoRemoveID ==
    /\ removal.st = "none"
    /\ LET r == removeID(removal.s, removal.v)
       IN  removal' = Removal(removal.s, removal.v, r.s, r.st)
    /\ StoreIdle
    /\ SessionsIdle
    /\ codec' = codec

NextRemoveID == DoRemoveID

SpecRemoveID == InitRemoveID /\ [][NextRemoveID]_vars

\* ================================================================ claims
\* the records of an index that list k among their children
Parents(rec, k) == {p \in DOMAIN rec : k \in Range(rec[p].Children)}

\* how often k occurs in a children list
Occurrences(s, k) == Cardinality({i \in 1 .. Len(s) : s[i] = k})

\* the files of the storage root that belong to identifier k
FilesOf(fil, k) == {f \in DOMAIN fil : f.id = k}

\* this step serves a request for operation op (every step of Next serves
\* one request and last' is that request)
Served(op) == last'.op = op

\* C1: every record of the index has a reference count equal to the number
\* of distinct records whose children list holds its identifier
C1_RefcountIsInDegree ==
    status = "running" =>
        \A k \in DOMAIN records : records[k].refs = Cardinality(Parents(records, k))

\* C2: a record is in the index only with a reference count above 0 (the
\* root, which no record lists, is left out of the statement)
C2_IndexedIffReferenced ==
    status = "running" =>
        \A k \in DOMAIN records \ {RootID} : records[k].refs > 0

\* C3: Unmount(p, c) of a child c that p lists and no other record lists
\* returns successfully; afterwards GetChildren(c) fails with an error, no
\* file of c is left in the storage root, c is out of the index and every
\* former child of c has lost one reference
C3_UnmountLastReferenceDeletes ==
    [][(/\ Served("Unmount")
        /\ last'.a \in DOMAIN records
        /\ last'.c \in DOMAIN records
        /\ Parents(records, last'.c) = {last'.a})
       => (/\ last'.res = "ok"
           /\ GetChildren([rec |-> records', fil |-> files', lk |-> idxLock', hd |-> held'],
                          last'.c).st = "err"
           /\ last'.c \notin DOMAIN records'
           /\ FilesOf(files', last'.c) = {}
           /\ \A g \in Range(records[last'.c].Children) :
                 g \in DOMAIN records' => records'[g].refs = records[g].refs - 1)]_vars

\* C6: CreateChild on an existing parent P returns a new identifier N;
\* afterwards P lists N exactly once and N is in the index with no children,
\* the given name and type, and a reference count of 1
C6_CreateChildAddsRecord ==
    [][(/\ (Served("Touch") \/ Served("Mkdir"))
        /\ last'.a \in DOMAIN records)
       => (/\ last'.res = "ok"
           /\ last'.rid \notin DOMAIN records
           /\ last'.rid \in DOMAIN records'
           /\ Occurrences(records'[last'.a].Children, last'.rid) = 1
           /\ records'[last'.rid].Children = <<>>
           /\ records'[last'.rid].Name = last'.name
           /\ records'[last'.rid].IsDir = (last'.op = "Mkdir")
           /\ records'[last'.rid].refs = 1)]_vars

\* C7: Mount(p2, child) of a child listed under p1 alone succeeds; afterwards
\* the child's reference count is 2 and both p1 and p2 list it
C7_MountUnderSecondParent ==
    [][(/\ Served("Mount")
        /\ last'.a \in DOMAIN records
        /\ last'.c \in DOMAIN records
        /\ Cardinality(Parents(records, last'.c)) = 1
        /\ last'.a \notin Parents(records, last'.c))
       => (/\ last'.res = "ok"
           /\ records'[last'.c].refs = 2
           /\ Parents(records', last'.c) = Parents(records, last'.c) \cup {last'.a})]_vars

\* C8: Mount(parent, child) of a child the parent already lists returns an
\* error and leaves the index and the storage root as they were
C8_MountTwiceRejected ==
    [][(/\ Served("Mount")
        /\ last'.a \in DOMAIN records
        /\ last'.a \in Parents(records, last'.c))
       => (/\ last'.res = "err"
           /\ records' = records
           /\ files' = files)]_vars

\* C9: Unmount(p1, child) of a child listed under p1 and p2 succeeds;
\* afterwards the child's reference count is 1, p1 no longer lists it, p2
\* still does, it is in the index and its files are as before
C9_UnmountOneOfTwoParents ==
    [][(/\ Served("Unmount")
        /\ last'.c \in DOMAIN records
        /\ Cardinality(Parents(records, last'.c)) = 2
        /\ last'.a \in Parents(records, last'.c))
       => (/\ last'.res = "ok"
           /\ last'.c \in DOMAIN records'
           /\ records'[last'.c].refs = 1
           /\ Parents(records', last'.c) = Parents(records, last'.c) \ {last'.a}
           /\ \A f \in FilesOf(files, last'.c) : f \in DOMAIN files' /\ files'[f] = files[f])]_vars

\* the identifiers a served request was given: the parent of a CreateChild,
\* the parent and the child of a Mount or an Unmount
GivenIDs(call) ==
    IF call.op \in {"Mount", "Unmount"} THEN {call.a, call.c} ELSE {call.a}

\* C11: CreateChild, Mount and Unmount return an error for a missing
\* identifier exactly when one of the identifiers they are given is not in
\* the index, and a call that returns it leaves the index (records, children
\* lists, reference counts) as it was
C11_NotFoundIffMissing ==
    [][(Served("Touch") \/ Served("Mkdir") \/ Served("Mount") \/ Served("Unmount"))
       => (/\ (\E u \in GivenIDs(last') : u \notin DOMAIN records) => last'.res = "err"
           /\ (\A u \in GivenIDs(last') : u \in DOMAIN records) => last'.res # "err"
           /\ (\E u \in GivenIDs(last') : u \notin DOMAIN records) => records' = records)]_vars

\* C12: GetChildren(id) returns the children list of the record when id is
\* in the index, and returns an error, without faulting, when it is not
C12_GetChildrenOrNotFound ==
    [][Served("GetChildren")
       => IF last'.a \in DOMAIN records
          THEN last'.res = "ok" /\ last'.ret = records[last'.a].Children
          ELSE last'.res = "err"]_vars

\* a storage root with a directory in it, an entry whose name is neither an
\* identifier nor identifier.section, or a record file that holds no document
Corrupt(fil) ==
    \E n \in DOMAIN fil :
        \/ fil[n].dir
        \/ ~matchesFileInFsRoot(n)
        \/ ~n.dot /\ fil[n].doc = <<>>

\* C13: on such a storage root NewFs fails and hands back no store with a
\* partially loaded index
C13_CorruptRootExposesNoStore ==
    Corrupt(files) => status = "failed" /\ DOMAIN records = {}

\* a section name of one or more characters of the class [A-Za-z0-9_-]
ValidSectionName(s) == s # <<>> /\ Range(s) \subseteq SaneChars

\* what a reader of section s of F gets: whether it opens, and the bytes
ReadOf(m, F, s) == LET o == OpenSection(m, F, s) IN <<o.st, o.ret>>

\* C14: after b is written through the section writer of (F, s), a read of
\* (F, s) returns exactly b, whatever (F, s) held before; and no request but
\* a write or a removal of (F, s) itself changes what a read of (F, s) returns
C14_WriteThenRead ==
    [][/\ (Served("CreateSection") /\ ValidSectionName(last'.sec))
            => (/\ last'.res = "ok"
                /\ ReadOf(Machine', last'.a, last'.sec) = <<"ok", last'.body>>)
       /\ \A F \in SectionIDs, s \in {x \in SectionNames : ValidSectionName(x)} :
             ~(/\ last'.op \in {"CreateSection", "DeleteSection"}
               /\ last'.a = F
               /\ last'.sec = s)
             => ReadOf(Machine', F, s) = ReadOf(Machine, F, s)]_vars

\* a read returned the bytes written to its section while another section
\* holds other bytes
C14_Witness ==
    /\ last.op = "OpenSection"
    /\ last.res = "ok"
    /\ last.ret = <<7>>
    /\ \E f \in DOMAIN files : f.dot /\ files[f].bytes = <<1, 2, 3>>

\* C15: DeleteSection(F, s) of a section that does not exist returns the
\* error of a missing file and leaves every file of the storage root, the
\* other sections of F and the record documents, and the index as they were
C15_DeleteMissingSection ==
    [][(/\ Served("DeleteSection")
        /\ ValidSectionName(last'.sec)
        /\ getSectionFileName(last'.a, last'.sec) \notin DOMAIN files)
       => (/\ last'.res = "err"
           /\ last'.e = NotExist
           /\ files' = files
           /\ records' = records)]_vars

\* a removal of a missing section of F was refused while F has another one
C15_Witness ==
    /\ last.op = "DeleteSection"
    /\ last.res = "err"
    /\ last.e = NotExist
    /\ \E f \in DOMAIN files : f.dot /\ f.id = last.a /\ f.sec # last.sec

\* C16: OpenSection, CreateSection and DeleteSection with a section name that
\* is not one or more characters of the class return the error of the sanity
\* check, hand back no bytes and leave the storage root as it was
C16_InsaneNameRejected ==
    [][(/\ (Served("OpenSection") \/ Served("CreateSection") \/ Served("DeleteSection"))
        /\ ~ValidSectionName(last'.sec))
       => (/\ last'.res = "err"
           /\ last'.e = NotSane
           /\ last'.ret = <<>>
           /\ files' = files)]_vars

\* an upload to a section name with a dot in it was refused
C16_Witness ==
    /\ last.op = "CreateSection"
    /\ last.sec = <<"a", ".", "b">>
    /\ last.res = "err"
    /\ last.e = NotSane

\* C17: the text of every identifier is strlen characters of the alphabet,
\* Parse of that text succeeds and returns the identifier, and unmarshalling
\* the marshalled identifier succeeds and returns it
C17_RoundTrip ==
    /\ codec.op = "String"
          => Len(codec.s) = 22 /\ Range(codec.s) \subseteq Range(b58table)
    /\ (codec.op = "Parse" /\ codec.from = "String")
          => codec.err = "" /\ codec.out = codec.v
    /\ (codec.op = "UnmarshalJSON" /\ codec.from = "MarshalJSON")
          => codec.err = "" /\ codec.out = codec.v

\* an identifier with a zero byte in front, and not all zero, came back from
\* its text
C17_Witness ==
    /\ codec.op = "Parse"
    /\ codec.from = "String"
    /\ codec.v[1] = 0
    /\ codec.v[IDLen] = 255
    /\ codec.out = codec.v

\* C18: Parse returns an error and the zero identifier for every text whose
\* length is not strlen and for every text with a byte outside the alphabet
C18_ParseRejects ==
    (/\ codec.op = "Parse"
     /\ \/ Len(codec.s) # 22
        \/ \E i \in 1 .. Len(codec.s) : codec.s[i] \notin Range(b58table))
    => codec.err # "" /\ codec.out = ZeroValue

\* a text of the right length was refused for a foreign byte in it
C18_Witness ==
    /\ codec.op = "Parse"
    /\ codec.from = "Malform"
    /\ Len(codec.s) = 22
    /\ codec.err = "invalid byte inside b58 string"

\* the token of a request validates: the server signed it, at most maxAge ago
Validates(token) ==
    /\ token \in issued
    /\ token.key = Secret
    /\ clock - token.at <= 7

\* this step serves a request of a route (a step that only moves the clock
\* leaves web as it is)
Routed(route) == web' # web /\ web'.route = route

\* C19: the handler behind requireLogin runs only for a token that validates,
\* the handler behind adminOnly only for one that validates and names the
\* user "admin"; every other request to them is answered 401 "401
\* unauthorized" and leaves the users directory as it was
C19_OnlyAuthorizedInvoke ==
    [][/\ Routed("whoami")
            => IF Validates(web'.Authorization)
               THEN web'.invoked
               ELSE /\ ~web'.invoked
                    /\ web'.code = 401
                    /\ web'.error = "401 unauthorized"
                    /\ users' = users
       /\ Routed("delete")
            => IF Validates(web'.Authorization) /\ web'.Authorization.name = "admin"
               THEN web'.invoked
               ELSE /\ ~web'.invoked
                    /\ web'.code = 401
                    /\ web'.error = "401 unauthorized"
                    /\ users' = users]_vars

\* a user who is not the admin asked, with a token that validates, for a
\* user who exists to be deleted and was refused
C19_Witness ==
    /\ web.route = "delete"
    /\ web.Authorization \in issued
    /\ web.Authorization.name = "matuush"
    /\ clock - web.Authorization.at <= 7
    /\ web.username \in DOMAIN users
    /\ web.code = 401

\* C20: a CreateChild on a parent of the index returns, and the parent's
\* children are then the ones it had, whoever put them there, and the new
\* identifier: the append is made under the parent's lock and no update of
\* the list is lost
C20_NoLostUpdate ==
    [][(/\ (Served("Touch") \/ Served("Mkdir"))
        /\ last'.a \in DOMAIN records)
       => (/\ last'.res = "ok"
           /\ held' = held
           /\ Range(records'[last'.a].Children)
                 = Range(records[last'.a].Children) \cup {last'.rid})]_vars

\* C21: of the calls Mount(p, c) for one pair of records of the index, the
\* one that finds c not under p succeeds, lists c once under p and raises
\* the reference count of c by one; one that finds c under p is refused with
\* an error and changes neither the list nor the count
C21_MountPairSerializes ==
    [][(/\ Served("Mount")
        /\ last'.a \in DOMAIN records
        /\ last'.c \in DOMAIN records)
       => IF last'.a \notin Parents(records, last'.c)
          THEN /\ last'.res = "ok"
               /\ Occurrences(records'[last'.a].Children, last'.c) = 1
               /\ records'[last'.c].refs = records[last'.c].refs + 1
          ELSE /\ last'.res = "err"
               /\ records'[last'.a].Children = records[last'.a].Children
               /\ records'[last'.c].refs = records[last'.c].refs]_vars

\* C23: removeID(s, v), for a slice s that holds v exactly once, returns no
\* error and a slice without v that holds exactly the other elements of s,
\* each as often as s does, in any order
C23_RemoveIDTakesOutTheOne ==
    (/\ removal.st # "none"
     /\ Occurrences(removal.s, removal.v) = 1)
    => /\ removal.st = "ok"
       /\ \A u \in IDs :
             Occurrences(removal.out, u)
                = IF u = removal.v THEN 0 ELSE Occurrences(removal.s, u)

\* C25: whenever GetChildren, Touch, Mkdir, Mount or Unmount reads or writes
\* the index map, the index lock is held
C25_IndexTouchedUnderLock ==
    [][last'.op \in {"GetChildren", "Touch", "Mkdir", "Mount", "Unmount"}
       => last'.locked]_vars

\* C26: a call of Mount or Unmount on records of the index, served with no
\* other call in progress, returns (with a result or with an error) and
\* leaves no record mutex locked; this holds for Mount(p, p) and for an
\* Unmount of the only reference to a record that has children of its own
C26_MountAndUnmountReturn ==
    [][(/\ Served("Mount") \/ Served("Unmount")
        /\ last'.a \in DOMAIN records
        /\ last'.c \in DOMAIN records)
       => /\ last'.res \in {"ok", "err"}
          /\ status' = "running"
          /\ held' = {}]_vars

\* C28: every record of the index carries, in its own identifier field, the
\* key it is stored under, whether CreateChild made it or NewFs loaded it
C28_RecordKnowsItsKey ==
    status # "failed" => \A k \in DOMAIN records : records[k].id = k

\* C29: a lookup in the index gives the index lock back in the mode it took
\* it in: once a store operation is over the lock has no reader and no
\* writer, and the runtime has not ended the process over a write-unlock of
\* a lock held for reading
C29_IndexLockReleasedAsTaken ==
    last.op \in {"Touch", "Mkdir", "Mount", "Unmount", "GetChildren"}
    => /\ idxLock = [readers |-> 0, writer |-> FALSE]
       /\ status # "fatal"

\* C31: Parse does not truncate: the identifier it returns without error
\* for a text has that text as its String(), so a text whose base-58 value
\* does not fit 16 bytes is not accepted and no two accepted texts give the
\* same identifier
C31_ParseNeverTruncates ==
    (codec.op = "Parse" /\ codec.err = "")
    => String(codec.out) = codec.s

\* ------------------------------------------------- what the store never does
\* Every request that looks a record up ends in the runtime's fatal error:
\* fs.record read-locks fs.lock and write-unlocks it.
LookupsEndFatal ==
    last.op \in {"Touch", "Mkdir", "Mount", "Unmount"} => last.res = "fatal"

\* No record mutex is ever locked: lock() is only called after a lookup.
NoRecordMutexTaken == held = {}

\* The index is what NewFs loaded for as long as the process runs.
IndexNeverChanges == [][records' = records]_vars

\* No record document of the storage root is rewritten or removed.
DocumentsNeverChange ==
    [][\A f \in DOMAIN files : ~f.dot => (f \in DOMAIN files' /\ files'[f] = files[f])]_vars

====
